---- MODULE Spec2Model ----
(***************************************************************************)
(* Model of the CRUD handlers of terraform-provider-jamfpro:               *)
(*   - computer extension attributes (create / read / update / delete and  *)
(*     the plan-time customDiff),                                          *)
(*   - advanced user searches (create / read / update / delete),           *)
(*   - app installers (create, serialised by the package mutex),           *)
(* and of the privileges workflow's step 'Update Version Constants'.       *)
(* One behaviour follows one resource kind (variable kind): resources of   *)
(* different kinds share no state.  A handler is cut into one step per     *)
(* remote API call, so that the remote system, and the request context's   *)
(* deadline, can change between two calls.                                 *)
(***************************************************************************)
EXTENDS Integers, Sequences, FiniteSets, TLC

\* ------------------------------------------------------------------ bounds
\* handler invocations in one behaviour
MaxOps == 3
\* out-of-band changes of the remote resource in one behaviour
MaxEnv == 2
\* attempts a retry.RetryContext loop makes before only the deadline is left
MaxAttempts == 2
\* concurrent app installer create invocations
NumCreators == 2

\* the retry count of the computer extension attribute loops
maxReadResourceRetries == 3

\* ------------------------------------------------------------- conversions
Digits == <<"0", "1", "2", "3", "4", "5", "6", "7", "8", "9">>

RECURSIVE FormatDigits(_)
FormatDigits(n) ==
    IF n < 10 THEN <<Digits[n + 1]>>
    ELSE Append(FormatDigits(n \div 10), Digits[(n % 10) + 1])

\* strconv.Itoa / fmt.Sprintf("%d", n): the decimal text of n, one character
\* per element
Itoa(n) == IF n < 0 THEN <<"-">> \o FormatDigits(0 - n) ELSE FormatDigits(n)

DigitValue(c) == CHOOSE k \in 0..9 : Digits[k + 1] = c

IsDigit(c) == \E k \in 1..10 : Digits[k] = c

RECURSIVE ParseDigits(_, _)
ParseDigits(s, acc) ==
    IF s = <<>> THEN acc
    ELSE ParseDigits(Tail(s), acc * 10 + DigitValue(Head(s)))

\* (mutant) a parse that skips what is not a digit and never fails
Atoi_SkipsNonDigits(s) ==
    [ok  |-> TRUE,
     val |-> ParseDigits(SelectSeq(s, IsDigit), 0)]

\* strconv.Atoi: an optional sign, then at least one digit and nothing else
Atoi(s) ==
    LET signed == s # <<>> /\ Head(s) \in {"+", "-"}
        body   == IF signed THEN Tail(s) ELSE s
        ok     == body # <<>> /\ \A k \in 1..Len(body) : IsDigit(body[k])
        mag    == IF ok THEN ParseDigits(body, 0) ELSE 0
    IN  [ok  |-> ok,
         val |-> IF signed /\ Head(s) = "-" THEN 0 - mag ELSE mag]

\* ------------------------------------------------------------------ errors
NoErr == [call |-> "", code |-> ""]

ApiErr(call, code) == [call |-> call, code |-> code]

\* the three error classes of the specification, by HTTP status
NotFound == "404"
Transient == "503"
OtherError == "403"

\* diag.FromErr(err): one error diagnostic carrying err itself
FromErr(e) == <<[severity |-> "Error", text |-> "", err |-> e, arg |-> 0]>>

\* diag.FromErr(fmt.Errorf(text + ": %v", err)): err wrapped in a message
FromErrWrapped(text, e) ==
    <<[severity |-> "Error", text |-> text, err |-> e, arg |-> 0]>>

\* diag.Errorf(text, arg): a message that carries no error
Errorf(text, arg) ==
    <<[severity |-> "Error", text |-> text, err |-> NoErr, arg |-> arg]>>

Warning(text, arg) ==
    [severity |-> "Warning", text |-> text, err |-> NoErr, arg |-> arg]

\* ---------------------------------------------------------------- variables
VARIABLES
    kind,        \* the resource kind this behaviour follows
    pc,          \* position of the (single) handler of kinds cea and aus
    op,          \* the handler the framework invoked
    d,           \* schema.ResourceData of the resource
    remote,      \* the remote resource: <<>> (absent) or <<record>>
    nextID,      \* the ID the remote system gives the next created resource
    ctxDone,     \* the request context's deadline has passed
    payload,     \* the constructed request: <<>> (nil) or <<record>>
    attribute,   \* Read's local: <<>> (nil) or <<response>>
    err,         \* the handler's local err
    i,           \* the loop counter of the running retry loop
    ri,          \* the loop counter of the read-back loop of create / update
    diags,       \* create's / update's accumulated diagnostics
    readDiags,   \* what the last call of Read returned
    ret,         \* what the handler returned
    resp,        \* the response of the create / update API call, <<>> or <<ID>>
    calls,       \* API calls the running invocation has issued (history)
    fetches,     \* fetch (Get) calls the running invocation has issued (history)
    log,         \* the milestones of the running invocation, in order (history)
    late,        \* an API call was issued in a retry loop after the deadline
                 \* had passed (history)
    snap,        \* d as a successful read left it, while the remote resource
                 \* is as that read fetched it (history)
    snapBy,      \* the handler whose read took snap; "" when there is none, or
                 \* the remote resource or the configuration has changed since
    before,      \* d as the running invocation found it (history)
    opCount,     \* handler invocations so far
    envCount,    \* out-of-band changes so far
    diffIn,      \* the input_type the plan handed to customDiff
    diffErr,     \* what customDiff returned for it
    ai,          \* the app installer create invocations, one record each
    mu,          \* appinstallers' mutex: 0 when free, else the holder
    validate,    \* validate.go in the workflow's workspace: its constant lines
    run,         \* the run of the privileges workflow
    goroutine,   \* the goroutine computer extension attribute delete spawns
    sent,        \* the channels the goroutine has sent on, in order (history)
    trace        \* the fetches of the last call of Read, in order (history)

vars == <<kind, pc, op, d, remote, nextID, ctxDone, payload, attribute, err, i,
          ri, diags, readDiags, ret, resp, calls, fetches, log, late,
          snap, snapBy, before, opCount, envCount, diffIn, diffErr, ai, mu,
          validate, run, goroutine, sent, trace>>

\* ------------------------------------------- computer extension attributes
\* input_type blocks of a configuration (the list holds at most one block)
InputTypeBlock(t, p, s, c) == [type |-> t, platform |-> p, script |-> s, choices |-> c]

\* The input_type lists the plan hands to customDiff.  "Linux" and "Other" are
\* values the schema's validators refuse; customDiff itself still decides them.
PlanInputTypes ==
    {<<>>} \cup
    { <<InputTypeBlock(t, p, s, c)>> :
        t \in {"script", "Text Field", "LDAP Mapping", "Pop-up Menu", "Other"},
        p \in {"", "Mac", "Windows", "Linux"},
        s \in {"", "echo"},
        c \in {<<>>, <<"c1">>, <<"c1", "c2">>} }

\* (mutant) customDiff without the platform check of 'Text Field'
customDiff_NoTextFieldPlatform(inputTypes) ==
    IF Len(inputTypes) = 0 THEN "input_type must be provided"
    ELSE
    LET inputTypeMap == inputTypes[1]
        inputType == inputTypeMap.type
        platform  == inputTypeMap.platform
        script    == inputTypeMap.script
        choices   == inputTypeMap.choices
    IN  CASE inputType = "script" ->
               IF platform # "Mac" /\ platform # "Windows" THEN "platform"
               ELSE IF script = "" THEN "script"
               ELSE IF Len(choices) > 0 THEN "choices"
               ELSE ""
          [] inputType = "Pop-up Menu" ->
               IF Len(choices) = 0 THEN "choices"
               ELSE IF platform # "" THEN "platform"
               ELSE IF script # "" THEN "script"
               ELSE ""
          [] inputType = "Text Field" ->
               IF script # "" THEN "script"
               ELSE IF Len(choices) > 0 THEN "choices"
               ELSE ""
          [] OTHER -> ""

\* customDiffComputerExtensionAttributes: "" for nil, else the error's text
customDiffComputerExtensionAttributes(inputTypes) ==
    IF Len(inputTypes) = 0 THEN "input_type must be provided"
    ELSE
    LET inputTypeMap == inputTypes[1]
        inputType == inputTypeMap.type
        platform  == inputTypeMap.platform
        script    == inputTypeMap.script
        choices   == inputTypeMap.choices
    IN  CASE inputType = "script" ->
               IF platform # "Mac" /\ platform # "Windows"
                 THEN "platform must be either 'Mac' or 'Windows' when input_type is 'script'"
               ELSE IF script = ""
                 THEN "'script' field must be populated when input_type is 'script'"
               ELSE IF Len(choices) > 0
                 THEN "'choices' must not be populated when input_type is 'script'"
               ELSE ""
          [] inputType = "Pop-up Menu" ->
               IF Len(choices) = 0
                 THEN "'choices' must be populated when input_type is 'Pop-up Menu'"
               ELSE IF platform # ""
                 THEN "'platform' must not be populated when input_type is 'Pop-up Menu'"
               ELSE IF script # ""
                 THEN "'script' must not be populated when input_type is 'Pop-up Menu'"
               ELSE ""
          [] inputType = "Text Field" ->
               IF script # ""
                 THEN "'script' field must not be populated when input_type is 'Text Field'"
               ELSE IF Len(choices) > 0
                 THEN "'choices' must not be populated when input_type is 'Text Field'"
               ELSE IF platform # ""
                 THEN "'platform' must not be populated when input_type is 'Text Field'"
               ELSE ""
          [] OTHER -> ""

\* the attribute map of schema.ResourceData
ResourceData(id, name, enabled, description, dataType, inventory, recon, inputType) ==
    [id |-> id, name |-> name, enabled |-> enabled, description |-> description,
     data_type |-> dataType, inventory_display |-> inventory,
     recon_display |-> recon, input_type |-> inputType]

\* a resource that is not in the state: no ID and every attribute zero
EmptyData == ResourceData(<<>>, "", FALSE, "", "", "", "", <<>>)

\* the configurations create and update are invoked with
Configs ==
    { ResourceData(<<>>, "ea1", TRUE, "desc", "String", "General", "",
                   <<InputTypeBlock("script", "Mac", "echo", <<>>)>>),
      ResourceData(<<>>, "ea2", FALSE, "", "", "", "Recon",
                   <<InputTypeBlock("Pop-up Menu", "", "", <<"c1", "c2">>)>>),
      ResourceData(<<>>, "ea1", TRUE, "", "Integer", "", "", <<>>) }

\* jamfpro.ComputerExtensionAttributeResponse
Response(id, name, enabled, description, dataType, inventory, recon, inputType) ==
    [ID |-> id, Name |-> name, Enabled |-> enabled, Description |-> description,
     DataType |-> dataType, InventoryDisplay |-> inventory,
     ReconDisplay |-> recon, InputType |-> inputType]

\* what an out-of-band edit can make of the remote resource (its ID is kept)
RemoteEdits ==
    { Response(0, "ea2", FALSE, "", "Integer", "", "Other",
               InputTypeBlock("Text Field", "", "", <<>>)),
      Response(0, "", TRUE, "edited", "", "Hardware", "",
               InputTypeBlock("Pop-up Menu", "", "", <<"c3">>)) }

\* the IDs a resource imported into the state can carry
ImportIDs == { <<"9">>, <<"x">>, <<"1", "0">> }

\* constructComputerExtensionAttribute: <<>> is the nil it returns
constructComputerExtensionAttribute(data) ==
    IF Len(data.input_type) = 0 THEN <<>>
    ELSE
    LET inputTypeMap == data.input_type[1]
    IN  <<Response(0, data.name, data.enabled, data.description, data.data_type,
                   data.inventory_display, data.recon_display,
                   InputTypeBlock(inputTypeMap.type, inputTypeMap.platform,
                                  inputTypeMap.script, inputTypeMap.choices))>>

\* (mutant) the emptiness test inverted
SetIfNotEmpty_Inverted(old, value) == IF value = "" THEN value ELSE old

\* (mutant) d.Set(key, value) whatever value is
SetIfNotEmpty_Always(old, value) == value

\* d.Set(key, value) when value is not the empty string
SetIfNotEmpty(old, value) == IF value # "" THEN value ELSE old

\* (mutant) a state writer that appends the response's choices to the state's
SetAttributes_AppendsChoices(data, a) ==
    [data EXCEPT
       !.name = IF a.Name # "" THEN a.Name ELSE data.name,
       !.enabled = a.Enabled,
       !.description = IF a.Description # "" THEN a.Description ELSE data.description,
       !.data_type = IF a.DataType # "" THEN a.DataType ELSE data.data_type,
       !.inventory_display = IF a.InventoryDisplay # "" THEN a.InventoryDisplay
                             ELSE data.inventory_display,
       !.recon_display = IF a.ReconDisplay # "" THEN a.ReconDisplay ELSE data.recon_display,
       !.input_type = <<InputTypeBlock(a.InputType.type, a.InputType.platform,
                                       a.InputType.script,
                                       (IF Len(data.input_type) = 0 THEN <<>>
                                        ELSE data.input_type[1].choices)
                                       \o a.InputType.choices)>>]

\* The state writer of ResourceJamfProComputerExtensionAttributesRead: the
\* attribute map after the d.Set calls for response a.
SetAttributes(data, a) ==
    [data EXCEPT
       !.name = SetIfNotEmpty(data.name, a.Name),
       !.enabled = a.Enabled,
       !.description = SetIfNotEmpty(data.description, a.Description),
       !.data_type = SetIfNotEmpty(data.data_type, a.DataType),
       !.inventory_display = SetIfNotEmpty(data.inventory_display, a.InventoryDisplay),
       !.recon_display = SetIfNotEmpty(data.recon_display, a.ReconDisplay),
       !.input_type = <<InputTypeBlock(a.InputType.type, a.InputType.platform,
                                       a.InputType.script, a.InputType.choices)>>]

\* ------------------------------------------------------- handler framework
Running == pc \notin {"idle", "done"}

\* The framework invokes handler o with resource data data: the locals of the
\* invocation and its history start afresh.
Begin(o, data) ==
    /\ opCount < MaxOps
    /\ pc \in {"idle", "done"}
    /\ op' = o
    /\ d' = data
    /\ before' = data
    /\ ctxDone' = FALSE
    /\ attribute' = <<>>
    /\ err' = NoErr
    /\ i' = 0
    /\ ri' = 0
    /\ diags' = <<>>
    /\ readDiags' = <<>>
    /\ resp' = <<>>
    /\ calls' = 0
    /\ fetches' = 0
    /\ late' = FALSE
    /\ sent' = <<>>
    /\ trace' = <<>>
    /\ opCount' = opCount + 1

\* One more API call; a call that starts another attempt of a retry loop
\* after the deadline has passed is late.
Called(startsAttempt) ==
    /\ calls' = calls + 1
    /\ late' = (late \/ (startsAttempt /\ ctxDone))

\* The outcomes of an API call that needs the remote resource: found says
\* whether the resource the call names exists.  A call can always fail with a
\* transient or another error; it fails with not-found when the resource is
\* missing, and succeeds ("") only when it exists.
Outcomes(found) == {Transient, OtherError} \cup (IF found THEN {""} ELSE {NotFound})

HasID(id) == remote # <<>> /\ remote[1].ID = id

HasName(name) == remote # <<>> /\ remote[1].Name = name

\* ----------------------------------- computer extension attributes: create
\* Create up to the construction of the request.
ResourceJamfProComputerExtensionAttributesCreate ==
    /\ kind = "cea"
    /\ d.id = <<>>
    /\ \E cfg \in Configs :
         /\ Begin("create", cfg)
         /\ payload' = constructComputerExtensionAttribute(cfg)
         /\ IF payload' = <<>>
              THEN /\ ret' = Errorf("failed to construct the computer extension attribute due to missing or invalid input_type", 0)
                   /\ log' = <<"construct_failed">>
                   /\ pc' = "done"
              ELSE /\ ret' = <<>>
                   /\ log' = <<"constructed">>
                   /\ pc' = "create_call"
    /\ snap' = EmptyData
    /\ snapBy' = ""
    /\ diffIn' = <<>>
    /\ diffErr' = ""
    /\ UNCHANGED <<kind, remote, nextID, envCount, ai, mu,
                   validate, run, goroutine>>

\* (mutant) the ID of the request, not of the response, is set
CreateCallSucceeds_RequestID ==
    /\ pc = "create_call"
    /\ remote = <<>>
    /\ Called(FALSE)
    /\ remote' = <<[payload[1] EXCEPT !.ID = nextID]>>
    /\ nextID' = nextID + 1
    /\ resp' = <<nextID>>
    /\ d' = [d EXCEPT !.id = Itoa(payload[1].ID)]
    /\ log' = log \o <<"create_call", "create_ok", "set_id">>
    /\ pc' = "read_enter"
    /\ UNCHANGED <<kind, op, ctxDone, payload, attribute, err, i, ri, diags,
                   readDiags, ret, fetches, snap, snapBy, before, opCount,
                   envCount, diffIn, diffErr, ai, mu,
                   validate, run, goroutine, sent, trace>>

\* conn.CreateComputerExtensionAttribute succeeds: the ID is set.
CreateCallSucceeds ==
    /\ pc = "create_call"
    /\ remote = <<>>
    /\ Called(FALSE)
    /\ remote' = <<[payload[1] EXCEPT !.ID = nextID]>>
    /\ nextID' = nextID + 1
    /\ resp' = <<nextID>>
    /\ d' = [d EXCEPT !.id = Itoa(nextID)]
    /\ log' = log \o <<"create_call", "create_ok", "set_id">>
    /\ pc' = "read_enter"
    /\ UNCHANGED <<kind, op, ctxDone, payload, attribute, err, i, ri, diags,
                   readDiags, ret, fetches, snap, snapBy, before, opCount,
                   envCount, diffIn, diffErr, ai, mu,
                   validate, run, goroutine, sent, trace>>

\* (mutant) the error of conn.CreateComputerExtensionAttribute is ignored and
\* the handler goes on to its read-back
CreateCallFails_ErrorIgnored ==
    /\ pc = "create_call"
    /\ Called(FALSE)
    /\ \E code \in {Transient, OtherError} :
         err' = ApiErr("CreateComputerExtensionAttribute", code)
    /\ log' = log \o <<"create_call">>
    /\ pc' = "read_enter"
    /\ UNCHANGED <<kind, op, d, remote, nextID, ctxDone, payload, attribute, i,
                   ri, diags, readDiags, ret, resp, fetches, snap, snapBy,
                   before, opCount, envCount, diffIn, diffErr, ai, mu,
                   validate, run, goroutine, sent, trace>>

\* conn.CreateComputerExtensionAttribute fails: the error is returned.
CreateCallFails ==
    /\ pc = "create_call"
    /\ Called(FALSE)
    /\ \E code \in {Transient, OtherError} :
         /\ err' = ApiErr("CreateComputerExtensionAttribute", code)
         /\ ret' = FromErr(err')
    /\ log' = log \o <<"create_call">>
    /\ pc' = "done"
    /\ UNCHANGED <<kind, op, d, remote, nextID, ctxDone, payload, attribute, i,
                   ri, diags, readDiags, resp, fetches, snap, snapBy, before,
                   opCount, envCount, diffIn, diffErr, ai, mu,
                   validate, run, goroutine, sent, trace>>

\* ------------------------------------- computer extension attributes: read
\* The framework invokes Read on a resource of the state.
ResourceJamfProComputerExtensionAttributesRead ==
    /\ kind = "cea"
    /\ d.id # <<>>
    /\ Begin("read", d)
    /\ payload' = <<>>
    /\ ret' = <<>>
    /\ log' = <<>>
    /\ pc' = "read_enter"
    /\ diffIn' = <<>>
    /\ diffErr' = ""
    /\ UNCHANGED <<kind, remote, nextID, snap, snapBy, envCount, ai, mu,
                   validate, run, goroutine>>

\* Read's return to its caller: the framework, or the read-back loop.
ReadReturns(rd) ==
    /\ readDiags' = rd
    /\ IF op = "read"
         THEN ret' = rd /\ pc' = "done"
         ELSE ret' = ret /\ pc' = "read_back_check"

\* (mutant) the loop of Read runs while i <= maxReadResourceRetries
ReadLoopHead_OffByOne(n) ==
    IF n <= maxReadResourceRetries THEN "read_by_id" ELSE "read_set"

\* The head of Read's retry loop, for i := 0; i < maxReadResourceRetries; i++:
\* where control goes with i = n.
ReadLoopHead(n) ==
    IF n < maxReadResourceRetries THEN "read_by_id" ELSE "read_set"

\* Read's entry: the ID of the state is parsed.
ReadEnter ==
    /\ pc = "read_enter"
    /\ before' = d
    /\ attribute' = <<>>
    /\ i' = 0
    /\ log' = IF op = "read" THEN log ELSE Append(log, "read_back")
    /\ trace' = <<>>
    /\ IF Atoi(d.id).ok
         THEN /\ err' = NoErr
              /\ pc' = ReadLoopHead(0)
              /\ UNCHANGED <<readDiags, ret>>
         ELSE /\ err' = ApiErr("strconv.Atoi", "syntax")
              /\ ReadReturns(FromErrWrapped("failed to parse attribute ID", err'))
    /\ UNCHANGED <<kind, op, d, remote, nextID, ctxDone, payload, ri, diags,
                   resp, calls, fetches, late, snap, snapBy, opCount,
                   envCount, diffIn, diffErr, ai, mu,
                   validate, run, goroutine, sent>>

\* (mutant) the fetch by name is issued whatever the fetch by ID returned
FetchFailed_Always(e, a) == TRUE

\* err != nil || attribute == nil: the fetch by ID failed
FetchFailed(e, a) == e # NoErr \/ a = <<>>

\* conn.GetComputerExtensionAttributeByID(attributeID), in attempt i.
ReadFetchByID ==
    /\ pc = "read_by_id"
    /\ Called(TRUE)
    /\ fetches' = fetches + 1
    /\ \E code \in Outcomes(HasID(Atoi(d.id).val)) :
         /\ attribute' = IF code = "" THEN remote ELSE <<>>
         /\ err' = IF code = "" THEN NoErr
                   ELSE ApiErr("GetComputerExtensionAttributeByID", code)
    /\ pc' = IF FetchFailed(err', attribute') THEN "read_by_name" ELSE "read_set"
    /\ trace' = Append(trace, IF err' = NoErr /\ attribute' # <<>>
                                THEN "by_id_ok" ELSE "by_id_failed")
    /\ UNCHANGED <<kind, op, d, remote, nextID, ctxDone, payload, i, ri, diags,
                   readDiags, ret, resp, log, snap, snapBy, before, opCount,
                   envCount, diffIn, diffErr, ai, mu,
                   validate, run, goroutine, sent>>

\* conn.GetComputerExtensionAttributeByName(name) after the fetch by ID failed,
\* then the end of attempt i: break, or sleep and go on.
ReadFetchByName ==
    /\ pc = "read_by_name"
    /\ Called(FALSE)
    /\ fetches' = fetches + 1
    /\ \E code \in Outcomes(HasName(d.name)) :
         /\ attribute' = IF code = "" THEN remote ELSE <<>>
         /\ err' = IF code = "" THEN NoErr
                   ELSE ApiErr("GetComputerExtensionAttributeByName", code)
    /\ IF err' = NoErr /\ attribute' # <<>>
         THEN i' = i /\ pc' = "read_set"
         ELSE /\ i' = i + 1
              /\ pc' = ReadLoopHead(i + 1)
    /\ trace' = Append(trace, IF err' = NoErr /\ attribute' # <<>>
                                THEN "by_name_ok" ELSE "by_name_failed")
    /\ UNCHANGED <<kind, op, d, remote, nextID, ctxDone, payload, ri, diags,
                   readDiags, ret, resp, log, snap, snapBy, before, opCount,
                   envCount, diffIn, diffErr, ai, mu,
                   validate, run, goroutine, sent>>

\* After the loop: the failure is reported, or the response is written to the
\* state.
ReadSetState ==
    /\ pc = "read_set"
    /\ IF err # NoErr \/ attribute = <<>>
         THEN /\ ReadReturns(Errorf("Failed to fetch attribute by both ID (%d) and name after %d retries",
                                    Atoi(d.id).val))
              /\ UNCHANGED <<d, snap, snapBy>>
         ELSE /\ d' = SetAttributes(d, attribute[1])
              /\ ReadReturns(<<>>)
              /\ snap' = IF snapBy # "" THEN snap
                         ELSE IF remote = attribute THEN d' ELSE EmptyData
              /\ snapBy' = IF snapBy # "" THEN snapBy
                           ELSE IF remote = attribute THEN op ELSE ""
    /\ UNCHANGED <<kind, op, remote, nextID, ctxDone, payload, attribute, err, i,
                   ri, diags, resp, calls, fetches, log, late, before,
                   opCount, envCount, diffIn, diffErr, ai, mu,
                   validate, run, goroutine, sent, trace>>

\* (mutant) a read-back loop that returns the warnings of its failed attempts
\* when a later attempt succeeds
ReadBackCheck_KeepsWarnings ==
    /\ pc = "read_back_check"
    /\ IF Len(readDiags) = 0
         THEN /\ ret' = diags
              /\ pc' = "done"
              /\ UNCHANGED <<diags, ri>>
         ELSE /\ diags' = Append(diags, Warning("Retrying...", ri + 1)) \o readDiags
              /\ ri' = ri + 1
              /\ IF ri + 1 < maxReadResourceRetries
                   THEN ret' = ret /\ pc' = "read_enter"
                   ELSE ret' = diags' /\ pc' = "done"
    /\ UNCHANGED <<kind, op, d, remote, nextID, ctxDone, payload, attribute, err,
                   i, readDiags, resp, calls, fetches, log, late, snap,
                   snapBy, before, opCount, envCount, diffIn, diffErr, ai, mu,
                   validate, run, goroutine, sent, trace>>

\* The read-back loop of create and update, after Read has returned.
ReadBackCheck ==
    /\ pc = "read_back_check"
    /\ IF Len(readDiags) = 0
         THEN /\ ret' = <<>>
              /\ pc' = "done"
              /\ UNCHANGED <<diags, ri>>
         ELSE /\ diags' = Append(diags,
                     Warning(IF op = "create"
                               THEN "Attempted to update resource state. Resource read attempt %d failed. Retrying..."
                               ELSE "Attempted to update resource state. Read attempt %d failed after update. Retrying...",
                             ri + 1)) \o readDiags
              /\ ri' = ri + 1
              /\ IF ri + 1 < maxReadResourceRetries
                   THEN ret' = ret /\ pc' = "read_enter"
                   ELSE ret' = diags' /\ pc' = "done"
    /\ UNCHANGED <<kind, op, d, remote, nextID, ctxDone, payload, attribute, err,
                   i, readDiags, resp, calls, fetches, log, late, snap,
                   snapBy, before, opCount, envCount, diffIn, diffErr, ai, mu,
                   validate, run, goroutine, sent, trace>>

\* ----------------------------------- computer extension attributes: update
\* Update up to the parse of the ID; the state carries the new configuration.
ResourceJamfProComputerExtensionAttributesUpdate ==
    /\ kind = "cea"
    /\ d.id # <<>>
    /\ \E cfg \in Configs :
         /\ Begin("update", [cfg EXCEPT !.id = d.id])
         /\ payload' = constructComputerExtensionAttribute(cfg)
    /\ log' = <<"constructed">>
    /\ IF Atoi(d.id).ok
         THEN ret' = <<>> /\ pc' = "update_by_id"
         ELSE /\ ret' = FromErrWrapped("failed to parse attribute ID",
                                       ApiErr("strconv.Atoi", "syntax"))
              /\ pc' = "done"
    /\ snap' = EmptyData
    /\ snapBy' = ""
    /\ diffIn' = <<>>
    /\ diffErr' = ""
    /\ UNCHANGED <<kind, remote, nextID, envCount, ai, mu,
                   validate, run, goroutine>>

\* (mutant) an update that leaves the ID of the state as it found it
UpdateSucceeded_KeepsID ==
    /\ remote' = <<[payload[1] EXCEPT !.ID = remote[1].ID]>>
    /\ resp' = <<remote[1].ID>>
    /\ d' = d
    /\ err' = NoErr
    /\ ret' = ret
    /\ log' = log \o <<"update_ok", "set_id">>
    /\ pc' = "read_enter"

\* An update call that succeeded: the remote resource takes the request's
\* attributes, and the ID of the response is set.
UpdateSucceeded ==
    /\ remote' = <<[payload[1] EXCEPT !.ID = remote[1].ID]>>
    /\ resp' = <<remote[1].ID>>
    /\ d' = [d EXCEPT !.id = Itoa(remote[1].ID)]
    /\ err' = NoErr
    /\ ret' = ret
    /\ log' = log \o <<"update_ok", "set_id">>
    /\ pc' = "read_enter"

\* conn.UpdateComputerExtensionAttributeByID(attributeID, attribute)
UpdateByID ==
    /\ pc = "update_by_id"
    /\ Called(FALSE)
    /\ \E code \in Outcomes(HasID(Atoi(d.id).val) /\ payload # <<>>) :
         IF code = ""
           THEN UpdateSucceeded
           ELSE /\ err' = ApiErr("UpdateComputerExtensionAttributeByID", code)
                /\ log' = Append(log, "update_by_id_failed")
                /\ pc' = "update_by_name"
                /\ UNCHANGED <<d, remote, resp, ret>>
    /\ UNCHANGED <<kind, op, nextID, ctxDone, payload, attribute, i, ri, diags,
                   readDiags, fetches, snap, snapBy, before, opCount, envCount,
                   diffIn, diffErr, ai, mu,
                   validate, run, goroutine, sent, trace>>

\* conn.UpdateComputerExtensionAttributeByName(name, attribute), after the
\* update by ID failed.
UpdateByName ==
    /\ pc = "update_by_name"
    /\ Called(FALSE)
    /\ \E code \in Outcomes(HasName(d.name) /\ payload # <<>>) :
         IF code = ""
           THEN UpdateSucceeded
           ELSE /\ err' = ApiErr("UpdateComputerExtensionAttributeByName", code)
                /\ ret' = FromErr(err')
                /\ log' = Append(log, "update_by_name_failed")
                /\ pc' = "done"
                /\ UNCHANGED <<d, remote, resp>>
    /\ UNCHANGED <<kind, op, nextID, ctxDone, payload, attribute, i, ri, diags,
                   readDiags, fetches, snap, snapBy, before, opCount, envCount,
                   diffIn, diffErr, ai, mu,
                   validate, run, goroutine, sent, trace>>

\* ----------------------------------- computer extension attributes: delete
\* no goroutine is alive: none was spawned, or it has returned
NoGoroutine == [pc |-> "none", err |-> NoErr]

\* Delete up to the go statement: the ID is parsed, the two unbuffered
\* channels are made and the goroutine is spawned; the handler then waits in
\* its select.
ResourceJamfProComputerExtensionAttributesDelete ==
    /\ kind = "cea"
    /\ d.id # <<>>
    /\ Begin("delete", d)
    /\ payload' = <<>>
    /\ log' = <<>>
    /\ IF Atoi(d.id).ok
         THEN /\ ret' = <<>>
              /\ goroutine' = [pc |-> "delete_by_id", err |-> NoErr]
              /\ pc' = "delete_select"
         ELSE /\ ret' = FromErrWrapped("failed to parse attribute ID",
                                       ApiErr("strconv.Atoi", "syntax"))
              /\ goroutine' = NoGoroutine
              /\ pc' = "done"
    /\ diffIn' = <<>>
    /\ diffErr' = ""
    /\ UNCHANGED <<kind, remote, nextID, snap, snapBy, envCount, ai, mu,
                   validate, run>>

\* the goroutine: conn.DeleteComputerExtensionAttributeByID(attributeID)
GoDeleteByID ==
    /\ goroutine.pc = "delete_by_id"
    /\ Called(FALSE)
    /\ \E code \in Outcomes(HasID(Atoi(d.id).val)) :
         IF code = ""
           THEN /\ remote' = <<>>
                /\ goroutine' = [pc |-> "send_success", err |-> NoErr]
                /\ log' = Append(log, "delete_by_id_ok")
           ELSE /\ remote' = remote
                /\ goroutine' = [pc |-> "delete_by_name",
                                 err |-> ApiErr("DeleteComputerExtensionAttributeByID", code)]
                /\ log' = Append(log, "delete_by_id_failed")
    /\ snap' = EmptyData
    /\ snapBy' = ""
    /\ UNCHANGED <<kind, pc, op, d, nextID, ctxDone, payload, attribute, err, i,
                   ri, diags, readDiags, ret, resp, fetches, before, opCount,
                   envCount, diffIn, diffErr, ai, mu, validate, run, sent,
                   trace>>

\* the goroutine, after the delete by ID failed:
\* conn.DeleteComputerExtensionAttributeByNameByID(attributeName)
GoDeleteByName ==
    /\ goroutine.pc = "delete_by_name"
    /\ Called(FALSE)
    /\ \E code \in Outcomes(HasName(d.name)) :
         IF code = ""
           THEN /\ remote' = <<>>
                /\ goroutine' = [pc |-> "send_success", err |-> NoErr]
                /\ log' = Append(log, "delete_by_name_ok")
           ELSE /\ remote' = remote
                /\ goroutine' = [pc |-> "send_error",
                                 err |-> ApiErr("DeleteComputerExtensionAttributeByNameByID", code)]
                /\ log' = Append(log, "delete_by_name_failed")
    /\ snap' = EmptyData
    /\ snapBy' = ""
    /\ UNCHANGED <<kind, pc, op, d, nextID, ctxDone, payload, attribute, err, i,
                   ri, diags, readDiags, ret, resp, fetches, before, opCount,
                   envCount, diffIn, diffErr, ai, mu, validate, run, sent,
                   trace>>

\* (mutant) the goroutine without the return after its send on errorCh: it
\* goes on to the send on successCh
AfterErrorSent_FallsThrough == "send_success"

\* where the goroutine goes after its send on errorCh: it returns, and is
\* no more
AfterErrorSent == "none"

\* (mutant) the handler clears the ID whichever channel it received on
DeleteErrorReceived_ClearsID ==
    /\ pc = "delete_select"
    /\ goroutine.pc = "send_error"
    /\ sent' = Append(sent, "errorCh")
    /\ goroutine' = NoGoroutine
    /\ d' = [d EXCEPT !.id = <<>>]
    /\ err' = goroutine.err
    /\ ret' = FromErrWrapped("failed to delete Computer Extension Attribute", err')
    /\ pc' = "done"
    /\ UNCHANGED <<kind, op, remote, nextID, ctxDone, payload, attribute, i,
                   ri, diags, readDiags, resp, calls, fetches, log, late, snap,
                   snapBy, before, opCount, envCount, diffIn, diffErr, ai, mu,
                   validate, run, trace>>

\* successCh <- true meets case <-successCh: the channel is unbuffered, so
\* the send completes when the handler, waiting in its select, receives; the
\* handler clears the ID and returns nil, the goroutine ends.
DeleteSuccessReceived ==
    /\ pc = "delete_select"
    /\ goroutine.pc = "send_success"
    /\ sent' = Append(sent, "successCh")
    /\ goroutine' = NoGoroutine
    /\ d' = [d EXCEPT !.id = <<>>]
    /\ ret' = <<>>
    /\ pc' = "done"
    /\ UNCHANGED <<kind, op, remote, nextID, ctxDone, payload, attribute, err, i,
                   ri, diags, readDiags, resp, calls, fetches, log, late, snap,
                   snapBy, before, opCount, envCount, diffIn, diffErr, ai, mu,
                   validate, run, trace>>

\* errorCh <- fmt.Errorf(...) meets case err := <-errorCh: the handler returns
\* the error, the goroutine returns.
DeleteErrorReceived ==
    /\ pc = "delete_select"
    /\ goroutine.pc = "send_error"
    /\ sent' = Append(sent, "errorCh")
    /\ goroutine' = [pc |-> AfterErrorSent, err |-> NoErr]
    /\ err' = goroutine.err
    /\ ret' = FromErrWrapped("failed to delete Computer Extension Attribute", err')
    /\ pc' = "done"
    /\ UNCHANGED <<kind, op, d, remote, nextID, ctxDone, payload, attribute, i,
                   ri, diags, readDiags, resp, calls, fetches, log, late, snap,
                   snapBy, before, opCount, envCount, diffIn, diffErr, ai, mu,
                   validate, run, trace>>

\* -------------------------------------------------- advanced user searches
\* the configurations of an advanced user search: its name stands for all of
\* its attributes
SearchConfigs == { [EmptyData EXCEPT !.name = "s1"], [EmptyData EXCEPT !.name = "s2"] }

\* jamfpro.ResourceAdvancedUserSearch
Search(id, name) == [ID |-> id, Name |-> name]

\* constructJamfProAdvancedUserSearch, when it returns no error
constructJamfProAdvancedUserSearch(data) == <<Search(0, data.name)>>

\* updateTerraformState: the response's fields are written to the state
updateTerraformState(data, resource) == [data EXCEPT !.name = resource.Name]

\* state.HandleResourceNotFoundError(err, d): the resource data it leaves
HandleResourceNotFoundErrorData(e, data) ==
    IF e.code = NotFound THEN [data EXCEPT !.id = <<>>] ELSE data

\* state.HandleResourceNotFoundError(err, d): the diagnostics it returns
HandleResourceNotFoundErrorDiags(e) ==
    IF e.code = NotFound
      THEN <<Warning("Resource not found, removing from state", 0)>>
      ELSE FromErr(e)

\* What retry.RetryContext returns once the deadline has passed: the error of
\* the last attempt, or the context's when no attempt failed.
RetryError == IF err = NoErr THEN ApiErr("context", "deadline exceeded") ELSE err

\* retry.RetryContext starts another attempt: the deadline has not passed.
\* (The model stops at MaxAttempts attempts and waits for the deadline.)
RetryAttempt == ~ctxDone /\ i < MaxAttempts

\* Create up to the construction of the request.
resourceJamfProAdvancedUserSearchCreate ==
    /\ kind = "aus"
    /\ d.id = <<>>
    /\ \E cfg \in SearchConfigs, constructed \in BOOLEAN :
         /\ Begin("create", cfg)
         /\ IF constructed
              THEN /\ payload' = constructJamfProAdvancedUserSearch(cfg)
                   /\ ret' = <<>>
                   /\ log' = <<"constructed">>
                   /\ pc' = "aus_create_retry"
              ELSE /\ payload' = <<>>
                   /\ ret' = FromErrWrapped("failed to construct Jamf Pro Advanced User Search",
                                            ApiErr("constructJamfProAdvancedUserSearch", "error"))
                   /\ log' = <<"construct_failed">>
                   /\ pc' = "done"
    /\ UNCHANGED <<kind, remote, nextID, snap, snapBy, envCount, diffIn, diffErr,
                   ai, mu,
                   validate, run, goroutine>>

\* One attempt of create's retry loop: client.CreateAdvancedUserSearch; when it
\* succeeds the ID of the response is set.
SearchCreateAttempt ==
    /\ pc = "aus_create_retry"
    /\ RetryAttempt
    /\ Called(TRUE)
    /\ \E code \in Outcomes(remote = <<>>) \ {NotFound} :
         IF code = ""
           THEN /\ remote' = <<[payload[1] EXCEPT !.ID = nextID]>>
                /\ nextID' = nextID + 1
                /\ resp' = <<nextID>>
                /\ d' = [d EXCEPT !.id = Itoa(nextID)]
                /\ log' = log \o <<"create_call", "create_ok", "set_id">>
                /\ pc' = "aus_read"
                /\ err' = NoErr
                /\ i' = i
           ELSE /\ err' = ApiErr("CreateAdvancedUserSearch", code)
                /\ i' = i + 1
                /\ log' = Append(log, "create_call")
                /\ UNCHANGED <<remote, nextID, resp, d, pc>>
    /\ UNCHANGED <<kind, op, ctxDone, payload, attribute, ri, diags, readDiags,
                   ret, fetches, snap, snapBy, before, opCount, envCount, diffIn,
                   diffErr, ai, mu,
                   validate, run, goroutine, sent, trace>>

\* (mutant) the handler goes on after the retry gave up: delete clears the ID
SearchRetryTimeout_ErrorIgnored ==
    /\ pc \in {"aus_create_retry", "aus_update_retry", "aus_delete_by_id"}
    /\ ctxDone
    /\ ret' = <<>>
    /\ d' = IF op = "delete" THEN [d EXCEPT !.id = <<>>] ELSE d
    /\ pc' = "done"
    /\ UNCHANGED <<kind, op, remote, nextID, ctxDone, payload, attribute, err,
                   i, ri, diags, readDiags, resp, calls, fetches, log, late,
                   snap, snapBy, before, opCount, envCount, diffIn, diffErr,
                   ai, mu, validate, run, goroutine, sent, trace>>

\* retry.RetryContext gives up: the handler returns the wrapped error.
SearchRetryTimeout ==
    /\ pc \in {"aus_create_retry", "aus_update_retry", "aus_delete_by_id"}
    /\ ctxDone
    /\ ret' = FromErrWrapped(
                 CASE op = "create" -> "failed to create Jamf Pro Advanced User Search after retries"
                   [] op = "update" -> "failed to update Jamf Pro Advanced User Search after retries"
                   [] OTHER -> "failed to delete Jamf Pro Advanced User Search after retries",
                 RetryError)
    /\ pc' = "done"
    /\ UNCHANGED <<kind, op, d, remote, nextID, ctxDone, payload, attribute, err,
                   i, ri, diags, readDiags, resp, calls, fetches, log, late,
                   snap, snapBy, before, opCount, envCount, diffIn, diffErr,
                   ai, mu,
                   validate, run, goroutine, sent, trace>>

\* The framework invokes Read on a resource of the state.
resourceJamfProAdvancedUserSearchRead ==
    /\ kind = "aus"
    /\ d.id # <<>>
    /\ Begin("read", d)
    /\ payload' = <<>>
    /\ ret' = <<>>
    /\ log' = <<>>
    /\ pc' = "aus_read"
    /\ UNCHANGED <<kind, remote, nextID, snap, snapBy, envCount, diffIn, diffErr,
                   ai, mu,
                   validate, run, goroutine>>

\* Read's body, also the read-back of create and update: the ID is parsed, the
\* resource fetched by ID, and the state written or the error handled.
SearchReadFetch ==
    /\ pc = "aus_read"
    /\ before' = d
    /\ log' = IF op = "read" THEN log ELSE Append(log, "read_back")
    /\ IF ~Atoi(d.id).ok
         THEN /\ err' = ApiErr("strconv.Atoi", "syntax")
              /\ ret' = FromErrWrapped("error converting resource ID to int", err')
              /\ UNCHANGED <<d, calls, fetches, late, attribute>>
         ELSE /\ Called(FALSE)
              /\ fetches' = fetches + 1
              /\ \E code \in Outcomes(HasID(Atoi(d.id).val)) :
                   IF code = ""
                     THEN /\ attribute' = remote
                          /\ err' = NoErr
                          /\ d' = updateTerraformState(d, remote[1])
                          /\ ret' = <<>>
                     ELSE /\ attribute' = <<>>
                          /\ err' = ApiErr("GetAdvancedUserSearchByID", code)
                          /\ d' = HandleResourceNotFoundErrorData(err', d)
                          /\ ret' = HandleResourceNotFoundErrorDiags(err')
    /\ pc' = "done"
    /\ UNCHANGED <<kind, op, remote, nextID, ctxDone, payload, i, ri, diags,
                   readDiags, resp, snap, snapBy, opCount, envCount, diffIn,
                   diffErr, ai, mu,
                   validate, run, goroutine, sent, trace>>

\* Update up to the construction of the request.
resourceJamfProAdvancedUserSearchUpdate ==
    /\ kind = "aus"
    /\ d.id # <<>>
    /\ \E cfg \in SearchConfigs, constructed \in BOOLEAN :
         /\ Begin("update", [cfg EXCEPT !.id = d.id])
         /\ IF ~Atoi(d.id).ok
              THEN /\ payload' = <<>>
                   /\ ret' = FromErrWrapped("error converting resource ID to int",
                                            ApiErr("strconv.Atoi", "syntax"))
                   /\ log' = <<>>
                   /\ pc' = "done"
              ELSE IF constructed
              THEN /\ payload' = constructJamfProAdvancedUserSearch(cfg)
                   /\ ret' = <<>>
                   /\ log' = <<"constructed">>
                   /\ pc' = "aus_update_retry"
              ELSE /\ payload' = <<>>
                   /\ ret' = FromErrWrapped("failed to construct Jamf Pro Advanced User Search for update",
                                            ApiErr("constructJamfProAdvancedUserSearch", "error"))
                   /\ log' = <<"construct_failed">>
                   /\ pc' = "done"
    /\ UNCHANGED <<kind, remote, nextID, snap, snapBy, envCount, diffIn, diffErr,
                   ai, mu,
                   validate, run, goroutine>>

\* One attempt of update's retry loop: client.UpdateAdvancedUserSearchByID.
SearchUpdateAttempt ==
    /\ pc = "aus_update_retry"
    /\ RetryAttempt
    /\ Called(TRUE)
    /\ \E code \in Outcomes(HasID(Atoi(d.id).val)) :
         IF code = ""
           THEN /\ remote' = <<[payload[1] EXCEPT !.ID = remote[1].ID]>>
                /\ log' = Append(log, "update_ok")
                /\ pc' = "aus_read"
                /\ err' = NoErr
                /\ i' = i
           ELSE /\ err' = ApiErr("UpdateAdvancedUserSearchByID", code)
                /\ i' = i + 1
                /\ UNCHANGED <<remote, log, pc>>
    /\ UNCHANGED <<kind, op, d, nextID, ctxDone, payload, attribute, ri, diags,
                   readDiags, ret, resp, fetches, snap, snapBy, before, opCount,
                   envCount, diffIn, diffErr, ai, mu,
                   validate, run, goroutine, sent, trace>>

\* Delete up to the parse of the ID.
resourceJamfProAdvancedUserSearchDelete ==
    /\ kind = "aus"
    /\ d.id # <<>>
    /\ Begin("delete", d)
    /\ payload' = <<>>
    /\ log' = <<>>
    /\ IF Atoi(d.id).ok
         THEN ret' = <<>> /\ pc' = "aus_delete_by_id"
         ELSE /\ ret' = FromErrWrapped("error converting resource ID to int",
                                       ApiErr("strconv.Atoi", "syntax"))
              /\ pc' = "done"
    /\ UNCHANGED <<kind, remote, nextID, snap, snapBy, envCount, diffIn, diffErr,
                   ai, mu,
                   validate, run, goroutine>>

\* The retry loop returned nil: the ID is cleared.
SearchDeleted ==
    /\ remote' = <<>>
    /\ d' = [d EXCEPT !.id = <<>>]
    /\ err' = NoErr
    /\ ret' = <<>>
    /\ pc' = "done"

\* One attempt of delete's retry loop starts: client.DeleteAdvancedUserSearchByID.
SearchDeleteByID ==
    /\ pc = "aus_delete_by_id"
    /\ RetryAttempt
    /\ Called(TRUE)
    /\ \E code \in Outcomes(HasID(Atoi(d.id).val)) :
         IF code = ""
           THEN /\ SearchDeleted
                /\ log' = Append(log, "delete_by_id_ok")
           ELSE /\ log' = Append(log, "delete_by_id_failed")
                /\ pc' = "aus_delete_by_name"
                /\ UNCHANGED <<remote, d, ret, err>>
    /\ UNCHANGED <<kind, op, nextID, ctxDone, payload, attribute, i, ri,
                   diags, readDiags, resp, fetches, snap, snapBy, before,
                   opCount, envCount, diffIn, diffErr, ai, mu,
                   validate, run, goroutine, sent, trace>>

\* The attempt goes on after the delete by ID failed:
\* client.DeleteAdvancedUserSearchByName; its error is the retryable one.
SearchDeleteByName ==
    /\ pc = "aus_delete_by_name"
    /\ Called(FALSE)
    /\ \E code \in Outcomes(HasName(d.name)) :
         IF code = ""
           THEN /\ SearchDeleted
                /\ log' = Append(log, "delete_by_name_ok")
                /\ i' = i
           ELSE /\ err' = ApiErr("DeleteAdvancedUserSearchByName", code)
                /\ i' = i + 1
                /\ log' = Append(log, "delete_by_name_failed")
                /\ pc' = "aus_delete_by_id"
                /\ UNCHANGED <<remote, d, ret>>
    /\ UNCHANGED <<kind, op, nextID, ctxDone, payload, attribute, ri, diags,
                   readDiags, resp, fetches, snap, snapBy, before, opCount,
                   envCount, diffIn, diffErr, ai, mu,
                   validate, run, goroutine, sent, trace>>

\* ----------------------------------------------------------- app installers
Creators == 1..NumCreators

\* an invocation of appinstallers' create that has not locked the mutex yet
NewCreate == [pc |-> "start", id |-> <<>>, resp |-> <<>>, err |-> NoErr,
              attempts |-> 0, ret |-> <<>>, log |-> <<>>, ctxDone |-> FALSE]

\* the invocations between mu.Lock() and the deferred mu.Unlock()
Locked == { p \in DOMAIN ai : ai[p].pc \in {"locked", "retry", "read_back"} }

UnchangedButAI ==
    UNCHANGED <<kind, pc, op, d, remote, ctxDone, payload, attribute, err, i, ri,
                diags, readDiags, ret, resp, calls, fetches, log, late, snap,
                snapBy, before, opCount, envCount, diffIn, diffErr,
                validate, run, goroutine, sent, trace>>

\* (mutant) mu.Lock() that does not wait for the holder
CreateLock_NoWait(p) ==
    /\ ai[p].pc = "start"
    /\ mu' = p
    /\ ai' = [ai EXCEPT ![p].pc = "locked"]
    /\ UNCHANGED nextID
    /\ UnchangedButAI

\* mu.Lock(): blocks while another invocation holds the mutex
CreateLock(p) ==
    /\ ai[p].pc = "start"
    /\ mu = 0
    /\ mu' = p
    /\ ai' = [ai EXCEPT ![p].pc = "locked"]
    /\ UNCHANGED nextID
    /\ UnchangedButAI

\* The handler returns r: the deferred mu.Unlock() runs.
CreateReturns(p, r, lg) ==
    /\ ai' = [ai EXCEPT ![p].pc = "done", ![p].ret = r, ![p].log = lg]
    /\ mu' = 0

\* constructJamfProAppInstaller(d) and its error check
CreateConstruct(p) ==
    /\ ai[p].pc = "locked"
    /\ \E constructed \in BOOLEAN :
         IF constructed
           THEN /\ ai' = [ai EXCEPT ![p].pc = "retry", ![p].log = <<"constructed">>]
                /\ mu' = mu
           ELSE CreateReturns(p,
                  FromErrWrapped("failed to construct Jamf Pro App Installer",
                                 ApiErr("constructJamfProAppInstaller", "error")),
                  <<"construct_failed">>)
    /\ UNCHANGED nextID
    /\ UnchangedButAI

\* One attempt of the retry loop: client.CreateJamfAppCatalogAppInstallerDeployment;
\* when it succeeds the ID of the response is set.
CreateAttempt(p) ==
    /\ ai[p].pc = "retry"
    /\ ~ai[p].ctxDone
    /\ ai[p].attempts < MaxAttempts
    /\ \E code \in {"", Transient, OtherError} :
         IF code = ""
           THEN /\ ai' = [ai EXCEPT ![p].pc = "read_back",
                                     ![p].resp = Itoa(nextID),
                                     ![p].id = Itoa(nextID),
                                     ![p].log = @ \o <<"create_call", "create_ok", "set_id">>]
                /\ nextID' = nextID + 1
           ELSE /\ ai' = [ai EXCEPT ![p].err = ApiErr("CreateJamfAppCatalogAppInstallerDeployment", code),
                                     ![p].attempts = @ + 1,
                                     ![p].log = Append(@, "create_call")]
                /\ nextID' = nextID
    /\ mu' = mu
    /\ UnchangedButAI

\* retry.RetryContext gives up: the handler returns the wrapped error.
CreateRetryTimeout(p) ==
    /\ ai[p].pc = "retry"
    /\ ai[p].ctxDone
    /\ CreateReturns(p,
          FromErrWrapped("failed to create Jamf Pro App Installer after retries",
                         IF ai[p].err = NoErr
                           THEN ApiErr("context", "deadline exceeded")
                           ELSE ai[p].err),
          ai[p].log)
    /\ UNCHANGED nextID
    /\ UnchangedButAI

\* readNoCleanup(ctx, d, meta): common.Read without removal from the state
CreateReadBack(p) ==
    /\ ai[p].pc = "read_back"
    /\ \E code \in {"", NotFound, Transient, OtherError} :
         CreateReturns(p,
           IF code = "" THEN <<>>
           ELSE FromErr(ApiErr("GetJamfAppCatalogAppInstallerTitleByID", code)),
           Append(ai[p].log, "read_back"))
    /\ UNCHANGED nextID
    /\ UnchangedButAI

\* The deadline of invocation p's context passes.
CreateDeadline(p) ==
    /\ ai[p].pc # "done"
    /\ ~ai[p].ctxDone
    /\ ai' = [ai EXCEPT ![p].ctxDone = TRUE]
    /\ UNCHANGED <<mu, nextID>>
    /\ UnchangedButAI

\* appinstallers' create, run by the concurrent invocations
create ==
    /\ kind = "ai"
    /\ \E p \in Creators :
         \/ CreateLock(p)
         \/ CreateConstruct(p)
         \/ CreateAttempt(p)
         \/ CreateRetryTimeout(p)
         \/ CreateReadBack(p)
         \/ CreateDeadline(p)

\* ------------------------------------------------- the privileges workflow
\* a line NAME = "VALUE" of validate.go's constant block
ConstantLine(name, value) == [name |-> name, value |-> value]

\* validate.go as the repository holds it before the first run
ValidateFile ==
    <<ConstantLine("LatestVersion", "11.12.0"),
      ConstantLine("NMinus1Version", "11.11.0"),
      ConstantLine("NMinus2Version", "11.10.0")>>

\* the version directories the privileges fetcher can leave behind: the
\* semantic version, then the build's suffix
VersionDirs ==
    { [semver |-> v, build |-> b] :
        v \in {"11.10.0", "11.11.0", "11.12.0", "11.13.0", "11.14.0"},
        b \in {"", "-t1728656858"} }

\* grep -o '^[0-9]*\.[0-9]*\.[0-9]*' on the directory's name
ExtractVersion(dir) == dir.semver

\* grep 'NAME.*=.*"' FILE | grep -o '"[^"]*"' | tr -d '"': the value of the
\* line that names the constant ("" when no line does)
GrepConstant(file, name) ==
    LET matching == SelectSeq(file, LAMBDA l : l.name = name)
    IN  IF Len(matching) = 0 THEN "" ELSE matching[1].value

\* sed -E 's/(NAME[[:space:]]*=[[:space:]]*")[^"]*(")$/\1VALUE\2/': the value
\* of every line that names the constant is replaced
SedConstant(file, name, value) ==
    [k \in DOMAIN file |->
        IF file[k].name = name THEN ConstantLine(name, value) ELSE file[k]]

\* (mutant) the constants are read again after each replacement
UpdateVersionConstants_ReadAfterWrite(file, version) ==
    LET f1 == SedConstant(file, "LatestVersion", version)
        f2 == SedConstant(f1, "NMinus1Version", GrepConstant(f1, "LatestVersion"))
    IN  IF version \in {GrepConstant(file, "LatestVersion"),
                        GrepConstant(file, "NMinus1Version"),
                        GrepConstant(file, "NMinus2Version")}
          THEN file
          ELSE SedConstant(f2, "NMinus2Version", GrepConstant(f2, "NMinus1Version"))

\* The script of the step 'Update Version Constants': validate.go as it
\* leaves it, given VERSION_DIR.
UpdateVersionConstants(file, version) ==
    LET CURRENT_LATEST  == GrepConstant(file, "LatestVersion")
        CURRENT_NMINUS1 == GrepConstant(file, "NMinus1Version")
        CURRENT_NMINUS2 == GrepConstant(file, "NMinus2Version")
    IN  IF version = CURRENT_LATEST \/ version = CURRENT_NMINUS1
             \/ version = CURRENT_NMINUS2
          THEN file
          ELSE SedConstant(
                 SedConstant(
                   SedConstant(file, "LatestVersion", version),
                   "NMinus1Version", CURRENT_LATEST),
                 "NMinus2Version", CURRENT_NMINUS1)

\* a run of the workflow that has not started
NoRun == [pc |-> "idle", VERSION_DIR |-> "", prior |-> <<>>]

UnchangedButWorkflow ==
    UNCHANGED <<kind, pc, op, d, remote, nextID, ctxDone, payload, attribute,
                err, i, ri, diags, readDiags, ret, resp, calls, fetches, log,
                late, snap, snapBy, before, envCount, diffIn, diffErr, ai, mu,
                goroutine, sent, trace>>

\* 'Checkout repository': the run starts from the repository's validate.go,
\* which is the file of the last run when its pull request was merged.
CheckoutRepository ==
    /\ kind = "wf"
    /\ run.pc \in {"idle", "finished"}
    /\ opCount < MaxOps
    /\ opCount' = opCount + 1
    /\ \E merged \in BOOLEAN :
         validate' = IF merged \/ run.pc = "idle" THEN validate ELSE run.prior
    /\ run' = [pc |-> "checked_out", VERSION_DIR |-> "", prior |-> validate']
    /\ UnchangedButWorkflow

\* 'Run User Account Privileges Fetcher': the version of the instance is
\* exported as VERSION_DIR, or the step fails and the run ends.
RunUserAccountPrivilegesFetcher ==
    /\ kind = "wf"
    /\ run.pc = "checked_out"
    /\ \/ \E dir \in VersionDirs :
            run' = [run EXCEPT !.pc = "fetched",
                               !.VERSION_DIR = ExtractVersion(dir)]
       \/ run' = [run EXCEPT !.pc = "finished"]
    /\ UNCHANGED <<validate, opCount>>
    /\ UnchangedButWorkflow

\* 'Update Version Constants'
UpdateVersionConstantsStep ==
    /\ kind = "wf"
    /\ run.pc = "fetched"
    /\ validate' = UpdateVersionConstants(validate, run.VERSION_DIR)
    /\ run' = [run EXCEPT !.pc = "updated"]
    /\ UNCHANGED opCount
    /\ UnchangedButWorkflow

\* 'Create Pull Request': the workspace's changes are proposed; the run ends.
CreatePullRequest ==
    /\ kind = "wf"
    /\ run.pc = "updated"
    /\ run' = [run EXCEPT !.pc = "finished"]
    /\ UNCHANGED <<validate, opCount>>
    /\ UnchangedButWorkflow

\* ------------------------------ computer extension attributes: plan, import
\* The plan runs CustomizeDiff on the configuration's input_type; it reads
\* the configuration alone, so its behaviours are followed apart (kind "plan").
Plan ==
    /\ kind = "plan"
    /\ \E it \in PlanInputTypes :
         /\ Begin("plan", d)
         /\ diffIn' = it
         /\ diffErr' = customDiffComputerExtensionAttributes(it)
    /\ payload' = <<>>
    /\ ret' = <<>>
    /\ log' = <<>>
    /\ pc' = "done"
    /\ UNCHANGED <<kind, remote, nextID, snap, snapBy, envCount, ai, mu,
                   validate, run, goroutine>>

\* schema.ImportStatePassthroughContext: the ID the user names enters the state.
Import ==
    /\ kind \in {"cea", "aus"}
    /\ pc = "idle"
    /\ d = EmptyData
    /\ \E id \in ImportIDs : d' = [d EXCEPT !.id = id]
    /\ UNCHANGED <<kind, pc, op, remote, nextID, ctxDone, payload, attribute, err,
                   i, ri, diags, readDiags, ret, resp, calls, fetches, log,
                   late, snap, snapBy, before, opCount, envCount, diffIn,
                   diffErr, ai, mu,
                   validate, run, goroutine, sent, trace>>

\* ------------------------------------------------------------- environment
\* The remote resource is edited outside Terraform.
ExternalEdit ==
    /\ kind = "cea"
    /\ remote # <<>>
    /\ envCount < MaxEnv
    /\ \E e \in RemoteEdits : remote' = <<[e EXCEPT !.ID = remote[1].ID]>>
    /\ remote' # remote
    /\ envCount' = envCount + 1
    /\ snap' = EmptyData
    /\ snapBy' = ""
    /\ UNCHANGED <<kind, pc, op, d, nextID, ctxDone, payload, attribute, err, i,
                   ri, diags, readDiags, ret, resp, calls, fetches, log,
                   late, before, opCount, diffIn, diffErr, ai, mu,
                   validate, run, goroutine, sent, trace>>

\* The remote resource is deleted outside Terraform.
ExternalDelete ==
    /\ kind \in {"cea", "aus"}
    /\ remote # <<>>
    /\ envCount < MaxEnv
    /\ remote' = <<>>
    /\ envCount' = envCount + 1
    /\ snap' = EmptyData
    /\ snapBy' = ""
    /\ UNCHANGED <<kind, pc, op, d, nextID, ctxDone, payload, attribute, err, i,
                   ri, diags, readDiags, ret, resp, calls, fetches, log,
                   late, before, opCount, diffIn, diffErr, ai, mu,
                   validate, run, goroutine, sent, trace>>

\* The deadline of the running invocation's context passes.
Deadline ==
    /\ kind \in {"cea", "aus"}
    /\ Running
    /\ ~ctxDone
    /\ ctxDone' = TRUE
    /\ UNCHANGED <<kind, pc, op, d, remote, nextID, payload, attribute, err, i,
                   ri, diags, readDiags, ret, resp, calls, fetches, log,
                   late, snap, snapBy, before, opCount, envCount, diffIn,
                   diffErr, ai, mu,
                   validate, run, goroutine, sent, trace>>

\* ------------------------------------------------------------ specification
\* the remote attribute that exists before Terraform manages it
Preexisting ==
    Response(9, "ea1", TRUE, "", "String", "General", "",
             InputTypeBlock("Text Field", "", "", <<>>))

Init ==
    /\ kind \in {"cea", "plan", "aus", "ai", "wf"}
    /\ pc = "idle"
    /\ op = ""
    /\ d = EmptyData
    /\ remote \in CASE kind = "cea" -> {<<>>, <<Preexisting>>}
                   [] kind = "aus" -> {<<>>, <<Search(9, "s1")>>}
                   [] OTHER -> {<<>>}
    /\ nextID = 10
    /\ ctxDone = FALSE
    /\ payload = <<>>
    /\ attribute = <<>>
    /\ err = NoErr
    /\ i = 0
    /\ ri = 0
    /\ diags = <<>>
    /\ readDiags = <<>>
    /\ ret = <<>>
    /\ resp = <<>>
    /\ calls = 0
    /\ fetches = 0
    /\ log = <<>>
    /\ late = FALSE
    /\ snap = EmptyData
    /\ snapBy = ""
    /\ before = EmptyData
    /\ opCount = 0
    /\ envCount = 0
    /\ diffIn = <<>>
    /\ diffErr = ""
    /\ ai = IF kind = "ai" THEN [p \in Creators |-> NewCreate] ELSE <<>>
    /\ mu = 0
    /\ validate = IF kind = "wf" THEN ValidateFile ELSE <<>>
    /\ run = NoRun
    /\ goroutine = NoGoroutine
    /\ sent = <<>>
    /\ trace = <<>>

Next ==
    \/ ResourceJamfProComputerExtensionAttributesCreate
    \/ CreateCallSucceeds
    \/ CreateCallFails
    \/ ResourceJamfProComputerExtensionAttributesRead
    \/ ReadEnter
    \/ ReadFetchByID
    \/ ReadFetchByName
    \/ ReadSetState
    \/ ReadBackCheck
    \/ ResourceJamfProComputerExtensionAttributesUpdate
    \/ UpdateByID
    \/ UpdateByName
    \/ ResourceJamfProComputerExtensionAttributesDelete
    \/ GoDeleteByID
    \/ GoDeleteByName
    \/ DeleteSuccessReceived
    \/ DeleteErrorReceived
    \/ resourceJamfProAdvancedUserSearchCreate
    \/ SearchCreateAttempt
    \/ SearchRetryTimeout
    \/ resourceJamfProAdvancedUserSearchRead
    \/ SearchReadFetch
    \/ resourceJamfProAdvancedUserSearchUpdate
    \/ SearchUpdateAttempt
    \/ resourceJamfProAdvancedUserSearchDelete
    \/ SearchDeleteByID
    \/ SearchDeleteByName
    \/ create
    \/ CheckoutRepository
    \/ RunUserAccountPrivilegesFetcher
    \/ UpdateVersionConstantsStep
    \/ CreatePullRequest
    \/ Plan
    \/ Import
    \/ ExternalEdit
    \/ ExternalDelete
    \/ Deadline

Spec == Init /\ [][Next]_vars

\* ------------------------------------------------------------------- claims
\* C1: app installer create calls are mutually exclusive: at most one
\* invocation at a time is between mu.Lock() (before the payload is
\* constructed) and its return, which covers the create call, its retries,
\* setting the ID and the read-back; the mutex is held by exactly that one.
C1_CreateMutualExclusion ==
    /\ \A p, q \in DOMAIN ai : (p \in Locked /\ q \in Locked) => p = q
    /\ \A p \in DOMAIN ai : p \in Locked => mu = p

\* C1 witness: one invocation is retrying the create call after a failed
\* attempt while another waits for the mutex.
C1_Witness ==
    \E p, q \in DOMAIN ai :
        /\ p # q
        /\ ai[p].pc = "retry"
        /\ ai[p].attempts >= 1
        /\ ai[q].pc = "start"

\* the resource ID of the state is cleared
IDCleared == d.id = <<>>

\* C2: when a read finds the resource deleted outside Terraform (its last
\* fetch failed with not-found), the handler clears the resource ID; stated
\* for the computer extension attribute and the advanced user search reads.
C2_NotFoundClearsID ==
    (kind \in {"cea", "aus"} /\ op = "read" /\ pc = "done"
       /\ remote = <<>> /\ err.code = NotFound)
        => IDCleared

\* C3: when every attempt of the computer extension attribute read has failed,
\* the read has stopped after maxReadResourceRetries attempts and the error it
\* returns carries the error of the last failed fetch.
C3_LastErrorSurfaced ==
    (kind = "cea" /\ op = "read" /\ pc = "done" /\ i >= maxReadResourceRetries)
        => /\ i = maxReadResourceRetries
           /\ Len(ret) > 0
           /\ ret[Len(ret)].err = err

\* C4 as claimed: a single invocation of a computer extension attribute
\* handler never makes more than maxReadResourceRetries fetches.
C4_FetchesWithinN ==
    kind = "cea" => fetches <= maxReadResourceRetries

\* C4 as amended: Read makes at most maxReadResourceRetries attempts of at
\* most two fetches each (by ID, then by name), and create and update call
\* Read at most maxReadResourceRetries times.
C4_FetchBound ==
    kind = "cea" =>
        /\ i <= maxReadResourceRetries
        /\ ri <= maxReadResourceRetries
        /\ op = "read" => fetches <= 2 * maxReadResourceRetries
        /\ op \in {"create", "update"} =>
              fetches <= 2 * maxReadResourceRetries * maxReadResourceRetries

\* C4 witness: a create whose every read-back failed has made all the fetches
\* the amended bound allows.
C4_Witness ==
    /\ kind = "cea"
    /\ op = "create"
    /\ pc = "done"
    /\ fetches = 2 * maxReadResourceRetries * maxReadResourceRetries

\* C5: a read that ends while the remote resource is as an earlier successful
\* read found it (in particular the read-back of create) leaves the resource
\* ID and every attribute as that earlier read left them.
C5_ReadIdempotent ==
    (kind = "cea" /\ op = "read" /\ pc = "done" /\ snapBy # "") => d = snap

\* C5 witness: a read has succeeded, by a fetch it had to retry, after the
\* read-back of a create, with the remote resource unchanged in between.
C5_Witness ==
    /\ kind = "cea"
    /\ op = "read"
    /\ pc = "done"
    /\ snapBy = "create"
    /\ ret = <<>>
    /\ fetches >= 2
    /\ d.input_type # <<>>
    /\ d.input_type[1].choices # <<>>

\* a call of Read has just returned no diagnostics
ReadSucceeded ==
    /\ kind = "cea"
    /\ \/ op = "read" /\ pc = "done" /\ ret = <<>>
       \/ pc = "read_back_check" /\ readDiags = <<>>

\* C6: after a read that returns no diagnostics the state's name, description,
\* data_type, inventory_display and recon_display equal the response's value
\* wherever that value is not empty, and enabled and input_type equal the
\* response's always.
C6_ResponseOverwritesState ==
    ReadSucceeded =>
        /\ attribute # <<>>
        /\ LET a == attribute[1]
           IN  /\ a.Name # "" => d.name = a.Name
               /\ a.Description # "" => d.description = a.Description
               /\ a.DataType # "" => d.data_type = a.DataType
               /\ a.InventoryDisplay # "" => d.inventory_display = a.InventoryDisplay
               /\ a.ReconDisplay # "" => d.recon_display = a.ReconDisplay
               /\ d.enabled = a.Enabled
               /\ Len(d.input_type) = 1
               /\ d.input_type[1].type = a.InputType.type
               /\ d.input_type[1].platform = a.InputType.platform
               /\ d.input_type[1].script = a.InputType.script
               /\ d.input_type[1].choices = a.InputType.choices

\* C6 witness: a read of a resource edited outside Terraform has overwritten
\* the description, the inventory display and the input type of the state.
C6_Witness ==
    /\ ReadSucceeded
    /\ op = "read"
    /\ attribute[1].Description = "edited"
    /\ before.description # "edited"
    /\ d.description = "edited"
    /\ before.inventory_display # d.inventory_display
    /\ before.input_type # d.input_type
    /\ before.enabled # d.enabled

\* C7: when the API call that made a handler fail failed with an error that is
\* neither transient nor not-found, the diagnostics the handler returns carry
\* that error.
C7_OtherErrorSurfaced ==
    (kind \in {"cea", "aus"} /\ pc = "done" /\ err.code = OtherError)
        => \E k \in 1..Len(ret) : ret[k].err = err

\* the order of the milestones of a create: no create call after a failed
\* construction, the ID set right after a create call succeeded, the
\* read-back after the ID was set
CreateOrder(lg) ==
    /\ \A k \in 1..Len(lg) :
         /\ lg[k] = "create_call" => lg[1] = "constructed"
         /\ lg[k] = "set_id" => (k > 1 /\ lg[k - 1] = "create_ok")
         /\ lg[k] = "read_back" => \E j \in 1..(k - 1) : lg[j] = "set_id"
    /\ (lg # <<>> /\ lg[1] = "construct_failed") => Len(lg) = 1

\* C8: every create handler follows construct, create call, set ID,
\* read-back: no API call is issued when the construction failed, the ID is
\* set only once a create call has succeeded and is the ID of its response,
\* and the read-back comes after the ID was set.
C8_CreateOrder ==
    /\ (kind \in {"cea", "aus"} /\ op = "create") =>
          /\ CreateOrder(log)
          /\ (log # <<>> /\ log[1] = "construct_failed") => calls = 0
          /\ d.id # <<>> => (resp # <<>> /\ d.id = Itoa(resp[1]))
          /\ fetches > 0 => resp # <<>>
    /\ \A p \in DOMAIN ai :
          /\ CreateOrder(ai[p].log)
          /\ ai[p].id # <<>> => (ai[p].resp # <<>> /\ ai[p].id = ai[p].resp)
          /\ ai[p].pc = "read_back" => ai[p].id # <<>>

\* C8 witness: a create has run through all four steps and returned nothing.
C8_Witness ==
    /\ kind = "cea"
    /\ op = "create"
    /\ pc = "done"
    /\ ret = <<>>
    /\ log = <<"constructed", "create_call", "create_ok", "set_id", "read_back">>
    /\ d.id = <<"1", "0">>

\* C9: once the deadline of the request context has passed, a handler starts
\* no further attempt of a retry loop.
C9_DeadlineStopsRetries == ~late

\* what C10 says customDiffComputerExtensionAttributes accepts
Accepted(inputTypes) ==
    /\ Len(inputTypes) > 0
    /\ LET b == inputTypes[1]
       IN  CASE b.type = "script" ->
                  b.platform \in {"Mac", "Windows"} /\ b.script # "" /\ b.choices = <<>>
             [] b.type = "Pop-up Menu" ->
                  b.choices # <<>> /\ b.platform = "" /\ b.script = ""
             [] b.type = "Text Field" ->
                  b.script = "" /\ b.platform = "" /\ b.choices = <<>>
             [] OTHER -> TRUE

\* C10: customDiffComputerExtensionAttributes returns nil exactly for the
\* configurations the claim lists, and an error for every other one.
C10_CustomDiffAccepts ==
    (kind = "plan" /\ op = "plan" /\ pc = "done")
        => (diffErr = "" <=> Accepted(diffIn))

\* C10 witness: the plan refused a 'Text Field' whose only fault is its platform.
C10_Witness ==
    /\ kind = "plan"
    /\ op = "plan"
    /\ pc = "done"
    /\ diffIn = <<InputTypeBlock("Text Field", "Mac", "", <<>>)>>
    /\ diffErr # ""

\* the three version constants of a validate.go, in the order latest, N-1, N-2
Constants(file) ==
    <<GrepConstant(file, "LatestVersion"), GrepConstant(file, "NMinus1Version"),
      GrepConstant(file, "NMinus2Version")>>

\* C11: after the step 'Update Version Constants', when the discovered version
\* V equals none of the three constants the run started with, LatestVersion
\* is V, NMinus1Version the previous LatestVersion and NMinus2Version the
\* previous NMinus1Version; when V equals one of them, all three are unchanged.
C11_SlidingWindow ==
    (kind = "wf" /\ run.pc = "updated") =>
        LET old == Constants(run.prior)
            V   == run.VERSION_DIR
        IN  IF V \notin {old[1], old[2], old[3]}
              THEN Constants(validate) = <<V, old[1], old[2]>>
              ELSE validate = run.prior

\* C11 witness: a second run has shifted the window that the first run, whose
\* pull request was merged, had shifted before.
C11_Witness ==
    /\ kind = "wf"
    /\ run.pc = "updated"
    /\ Constants(run.prior) = <<"11.13.0", "11.12.0", "11.11.0">>
    /\ Constants(validate) = <<"11.14.0", "11.13.0", "11.12.0">>

\* the milestones lg of a create hold a create call and no successful one
CreateCallFailed(lg) ==
    /\ \E k \in 1..Len(lg) : lg[k] = "create_call"
    /\ \A k \in 1..Len(lg) : lg[k] # "create_ok"

\* a diagnostic of severity Error is among ds
HasError(ds) == \E k \in 1..Len(ds) : ds[k].severity = "Error"

\* C12: a create handler whose API create call failed (for the retried
\* handlers: on every attempt until the retry gave up) returns an error, leaves
\* the resource ID unset and performs no read-back.
C12_FailedCreateLeavesNoID ==
    /\ (kind \in {"cea", "aus"} /\ op = "create" /\ CreateCallFailed(log)) =>
          /\ d.id = <<>>
          /\ fetches = 0
          /\ \A k \in 1..Len(log) : log[k] # "read_back"
          /\ pc = "done" => HasError(ret)
    /\ \A p \in DOMAIN ai : CreateCallFailed(ai[p].log) =>
          /\ ai[p].id = <<>>
          /\ ai[p].pc # "read_back"
          /\ \A k \in 1..Len(ai[p].log) : ai[p].log[k] # "read_back"
          /\ ai[p].pc = "done" => HasError(ai[p].ret)

\* C12 witness: an advanced user search create has given up after all its
\* attempts failed.
C12_Witness ==
    /\ kind = "aus"
    /\ op = "create"
    /\ pc = "done"
    /\ i = MaxAttempts
    /\ CreateCallFailed(log)
    /\ HasError(ret)

\* C13: computer extension attribute delete is synchronous and free of
\* deadlock and goroutine leak: whatever the delete calls return, the goroutine
\* sends exactly one message, on exactly one of the two channels; while the
\* handler waits the goroutine is still on its way to that send, a goroutine
\* at a send finds the handler receiving, and once the handler has returned
\* the delete calls are over and the goroutine has ended.
C13_DeleteSynchronous ==
    /\ Len(sent) <= 1
    /\ goroutine.pc # "none" =>
          /\ kind = "cea"
          /\ op = "delete"
          /\ pc = "delete_select"
          /\ sent = <<>>
    /\ (kind = "cea" /\ op = "delete" /\ pc = "delete_select") =>
          goroutine.pc \in {"delete_by_id", "delete_by_name",
                            "send_success", "send_error"}
    /\ (kind = "cea" /\ op = "delete" /\ pc = "done" /\ calls > 0) =>
          /\ goroutine = NoGoroutine
          /\ Len(sent) = 1
          /\ log # <<>>
          /\ log[Len(log)] \in {"delete_by_id_ok", "delete_by_name_ok",
                                "delete_by_name_failed"}
          /\ sent[1] = "successCh" <=> ret = <<>>

\* C13 witness: both delete calls failed, the goroutine sent on errorCh and
\* ended, and the handler returned the error.
C13_Witness ==
    /\ kind = "cea"
    /\ op = "delete"
    /\ pc = "done"
    /\ calls = 2
    /\ sent = <<"errorCh">>
    /\ goroutine = NoGoroutine
    /\ HasError(ret)

\* the milestones lg of a delete show a delete call that succeeded
Deleted(lg) ==
    lg # <<>> /\ lg[Len(lg)] \in {"delete_by_id_ok", "delete_by_name_ok"}

\* in the milestones lg of a delete, every delete by name directly follows a
\* failed delete by ID
ByNameAfterByIDFailed(lg) ==
    \A k \in 1..Len(lg) :
        lg[k] \in {"delete_by_name_ok", "delete_by_name_failed"}
            => (k > 1 /\ lg[k - 1] = "delete_by_id_failed")

\* C14: computer extension attribute delete clears the resource ID exactly
\* when the deletion succeeded, by ID or, after that failed, by name; the
\* delete by name is attempted only after the delete by ID failed; when both
\* fail the handler returns an error and the ID is unchanged.
C14_DeleteClearsIDIffDeleted ==
    (kind = "cea" /\ op = "delete") =>
        /\ ByNameAfterByIDFailed(log)
        /\ pc # "done" => d = before
        /\ pc = "done" =>
              /\ d.id = <<>> <=> Deleted(log)
              /\ Deleted(log) => ret = <<>>
              /\ ~Deleted(log) => (HasError(ret) /\ d = before)

\* C14 witness: the delete by ID failed, the delete by name succeeded, and
\* the ID is cleared.
C14_Witness ==
    /\ kind = "cea"
    /\ op = "delete"
    /\ pc = "done"
    /\ log = <<"delete_by_id_failed", "delete_by_name_ok">>
    /\ before.id # <<>>
    /\ d.id = <<>>
    /\ remote = <<>>

\* in the milestones lg of a retried delete, every attempt but the first
\* directly follows an attempt whose delete by name failed
RetriedWhileBothFailed(lg) ==
    \A k \in 2..Len(lg) :
        lg[k] \in {"delete_by_id_ok", "delete_by_id_failed"}
            => lg[k - 1] = "delete_by_name_failed"

\* C15: advanced user search delete tries the delete by name only within an
\* attempt whose delete by ID failed, starts another attempt only after both
\* failed, clears the resource ID only after an attempt succeeded by ID or by
\* name, and returns an error with the resource ID unchanged when the retry
\* gives up, which it does only once the deadline has passed.
C15_SearchDeleteRetry ==
    (kind = "aus" /\ op = "delete") =>
        /\ ByNameAfterByIDFailed(log)
        /\ RetriedWhileBothFailed(log)
        /\ d.id = <<>> => Deleted(log)
        /\ pc # "done" => (d = before /\ ~Deleted(log))
        /\ pc = "done" =>
              /\ Deleted(log) => (d.id = <<>> /\ ret = <<>>)
              /\ ~Deleted(log) => (HasError(ret) /\ d = before)
              /\ (~Deleted(log) /\ Atoi(d.id).ok) => ctxDone

\* C15 witness: the second attempt succeeded by name after the whole first
\* attempt and the second delete by ID had failed.
C15_Witness ==
    /\ kind = "aus"
    /\ op = "delete"
    /\ pc = "done"
    /\ log = <<"delete_by_id_failed", "delete_by_name_failed",
               "delete_by_id_failed", "delete_by_name_ok">>
    /\ d.id = <<>>

\* C16: in each attempt of the computer extension attribute read the fetch by
\* name is issued only if the fetch by ID of that attempt has just failed (an
\* error or a nil result), and no fetch follows a fetch that returned a
\* non-nil result without error.
C16_FetchOrder ==
    kind = "cea" =>
        \A k \in 1..Len(trace) :
            /\ trace[k] \in {"by_name_ok", "by_name_failed"}
                  => (k > 1 /\ trace[k - 1] = "by_id_failed")
            /\ trace[k] \in {"by_id_ok", "by_name_ok"} => k = Len(trace)
            /\ (trace[k] \in {"by_id_ok", "by_id_failed"} /\ k > 1)
                  => trace[k - 1] = "by_name_failed"

\* C16 witness: the second attempt of a read ended the loop by its fetch by
\* name, and the read went on to write the state.
C16_Witness ==
    /\ kind = "cea"
    /\ op = "read"
    /\ pc = "done"
    /\ ret = <<>>
    /\ trace = <<"by_id_failed", "by_name_failed", "by_id_failed", "by_name_ok">>

\* how often x occurs in the milestones lg
Count(lg, x) == Cardinality({k \in 1..Len(lg) : lg[k] = x})

\* C17: after a successful API create or update of a computer extension
\* attribute the handler returns no diagnostics exactly when one of its at most
\* maxReadResourceRetries read-backs returned none, and that read-back is its
\* last; when all of them returned diagnostics it returns, per attempt, one
\* 'Retrying' warning followed by that attempt's read diagnostics, and the
\* resource ID is still the created / updated one.
C17_ReadBackDiagnostics ==
    (kind = "cea" /\ op \in {"create", "update"} /\ resp # <<>>) =>
        /\ Count(log, "read_back") <= maxReadResourceRetries
        /\ d.id = Itoa(resp[1])
        /\ pc = "done" =>
              /\ ret = <<>> <=> readDiags = <<>>
              /\ ret = <<>> =>
                    /\ ri < maxReadResourceRetries
                    /\ Count(log, "read_back") = ri + 1
              /\ ret # <<>> =>
                    /\ ri = maxReadResourceRetries
                    /\ Count(log, "read_back") = maxReadResourceRetries
                    /\ ret = diags
                    /\ Len(ret) = 2 * maxReadResourceRetries
                    /\ \A k \in 1..maxReadResourceRetries :
                          /\ ret[2 * k - 1].severity = "Warning"
                          /\ ret[2 * k - 1].arg = k
                          /\ ret[2 * k].severity = "Error"

\* C17 witness: an update whose second read-back succeeded returned nothing,
\* though its first read-back had left a warning and an error.
C17_Witness ==
    /\ kind = "cea"
    /\ op = "update"
    /\ pc = "done"
    /\ resp # <<>>
    /\ ri = 1
    /\ Len(diags) = 2
    /\ ret = <<>>

\* C18: computer extension attribute update calls the update by name only
\* after the update by ID failed; when both fail it returns an error, the
\* state is as it found it and nothing is read back; otherwise the resource ID
\* is the ID the successful update call returned, set before the read-back.
C18_UpdateByIDThenByName ==
    (kind = "cea" /\ op = "update") =>
        /\ pc = "update_by_name" =>
              (calls = 1 /\ log[Len(log)] = "update_by_id_failed")
        /\ \A k \in 1..Len(log) :
              /\ log[k] = "update_by_name_failed" =>
                    (k > 1 /\ log[k - 1] = "update_by_id_failed" /\ k = Len(log))
              /\ log[k] = "set_id" => (k > 1 /\ log[k - 1] = "update_ok")
              /\ log[k] = "read_back" => \E j \in 1..(k - 1) : log[j] = "set_id"
        /\ (log # <<>> /\ log[Len(log)] = "update_by_name_failed") =>
              /\ pc = "done"
              /\ HasError(ret)
              /\ d = before
              /\ fetches = 0
        /\ Count(log, "set_id") > 0 =>
              (resp # <<>> /\ d.id = Itoa(resp[1]))
        /\ fetches > 0 => Count(log, "set_id") > 0

\* C18 witness: the update by ID failed, the update by name succeeded on a
\* resource of another ID, and that ID was set before the read-back.
C18_Witness ==
    /\ kind = "cea"
    /\ op = "update"
    /\ pc = "done"
    /\ calls >= 3
    /\ log[2] = "update_by_id_failed"
    /\ log[3] = "update_ok"
    /\ resp = <<9>>
    /\ d.id = <<"9">>
    /\ ret = <<>>

\* the text s is not a decimal integer: it holds no digit at all, or a
\* character that is neither a digit nor a leading sign
NotDecimal(s) ==
    \/ \A k \in 1..Len(s) : s[k] \notin {"0", "1", "2", "3", "4", "5", "6", "7", "8", "9"}
    \/ \E k \in 1..Len(s) :
          /\ s[k] \notin {"0", "1", "2", "3", "4", "5", "6", "7", "8", "9"}
          /\ ~(k = 1 /\ s[k] \in {"+", "-"})

\* C19: when the resource ID of the state is not a decimal integer, the read,
\* update and delete handlers of computer extension attributes and of advanced
\* user searches issue no API call, leave the state as they found it and
\* return an error.
C19_BadIDNoCall ==
    (kind \in {"cea", "aus"} /\ op \in {"read", "update", "delete"}
       /\ NotDecimal(before.id)) =>
        /\ calls = 0
        /\ d = before
        /\ goroutine = NoGoroutine
        /\ pc = "done" => HasError(ret)

\* C19 witness: an advanced user search update of a resource imported with
\* the ID "x" has returned its error.
C19_Witness ==
    /\ kind = "aus"
    /\ op = "update"
    /\ pc = "done"
    /\ before.id = <<"x">>
    /\ d.id = <<"x">>
    /\ calls = 0
    /\ HasError(ret)

\* C20: after a computer extension attribute read that returned no
\* diagnostics, each of name, description, data_type, inventory_display and
\* recon_display for which the response carries the empty value is as it was
\* before the read.
C20_EmptyValueKeepsState ==
    ReadSucceeded =>
        LET a == attribute[1]
        IN  /\ a.Name = "" => d.name = before.name
            /\ a.Description = "" => d.description = before.description
            /\ a.DataType = "" => d.data_type = before.data_type
            /\ a.InventoryDisplay = "" => d.inventory_display = before.inventory_display
            /\ a.ReconDisplay = "" => d.recon_display = before.recon_display

\* C20 witness: a read fetched a resource whose name and data type were
\* cleared remotely, and the state still holds both.
C20_Witness ==
    /\ ReadSucceeded
    /\ op = "read"
    /\ attribute[1].Name = ""
    /\ attribute[1].DataType = ""
    /\ d.name # ""
    /\ d.data_type # ""
    /\ d.description = "edited"

====
